---------------------------- MODULE Spec2Model ----------------------------
(***************************************************************************)
(* Model of pcbnew/pcbplot.cpp: the Gerber X2 attribute generation         *)
(* (GetGerberProtelExtension, GetGerberFileFunctionAttribute,              *)
(* GetGerberFilePolarityAttribute, makeStringCompatX1,                     *)
(* makeProjectGUIDfromString, AddGerberX2Header, AddGerberX2Attribute),    *)
(* BuildPlotFileName and the PLOT_CONTROLLER session object.               *)
(*                                                                         *)
(* A wxString is modelled as a sequence of characters; a character is a    *)
(* one-character TLA+ string, except the non-ASCII characters, which are   *)
(* written "U+xxxx".  CharCode gives the code point of each character.     *)
(***************************************************************************)
EXTENDS Integers, Sequences, FiniteSets, TLC

VARIABLES
    op,               \* the operation that ran last ("none" before any)
    ret,              \* the value that operation returned
    aLayer,           \* LAYER_NUM argument of the layer functions
    copperLayerCount, \* BOARD::GetCopperLayerCount()
    aText,            \* the name given to makeProjectGUIDfromString
    aText2,           \* the name given to a second call of it
    guid,             \* the GUID returned for aText
    guid2,            \* the GUID returned for aText2
    aFilename,        \* the wxFileName BuildPlotFileName works on
    aOutputDir,       \* its aOutputDir argument
    aSuffix,          \* its aSuffix argument
    aExtension,       \* its aExtension argument
    boardFileName,    \* BOARD::GetFileName(), as a wxFileName
    revision,         \* BOARD::GetTitleBlock().GetRevision()
    auxOrigin,        \* BOARD::GetAuxOrigin()
    useAuxOrigin,     \* BOARD::GetPlotOptions().GetUseAuxOrigin()
    timeZone,         \* what wxDateTime::Format( "%z" ) gives
    aUseX1CompatibilityMode, \* argument of the header functions
    header,           \* the lines PLOTTER::AddLineToHeader has been given
    gerberFiles,      \* the Gerber files plotted so far, each with its header
    alive,            \* the PLOT_CONTROLLER is constructed and not destroyed
    m_plotter,        \* PLOT_CONTROLLER::m_plotter: NULL or a plotter
    m_plotLayer,      \* PLOT_CONTROLLER::m_plotLayer
    m_plotFile,       \* PLOT_CONTROLLER::m_plotFile
    m_plotOptions,    \* the PCB_PLOT_PARAMS GetPlotOptions() returns
    plotters,         \* every PLOTTER StartPlotBoard has returned so far
    calls             \* what the last operation called outside the controller

layerVars == <<aLayer, copperLayerCount>>
guidVars == <<aText, aText2, guid, guid2>>

fileVars == <<aFilename, aOutputDir, aSuffix, aExtension>>

boardVars == <<boardFileName, revision, auxOrigin, useAuxOrigin>>
headerVars == <<timeZone, aUseX1CompatibilityMode, header, gerberFiles>>

ctlVars == <<alive, m_plotter, m_plotLayer, m_plotFile, m_plotOptions,
             plotters, calls>>

vars == <<op, ret, layerVars, guidVars, fileVars, boardVars, headerVars,
          ctlVars>>

\* The null pointer; the plotters are numbered from 1.
NULL == 0

\* The controller while none is constructed.
ControllerIdle ==
    /\ alive = FALSE
    /\ m_plotter = NULL
    /\ m_plotLayer = -1
    /\ m_plotFile = [path |-> <<>>, name |-> <<>>, ext |-> <<>>]
    /\ m_plotOptions = [format |-> "GERBER",
                        useGerberProtelExtensions |-> FALSE,
                        outputDirectory |-> <<>>]
    /\ plotters = <<>>
    /\ calls = <<>>

\* A wxFileName: its directory, its name and its extension.
FileName(path, name, ext) == [path |-> path, name |-> name, ext |-> ext]

\* The variables of BuildPlotFileName while it is not called.
FileIdle ==
    /\ aFilename = FileName(<<>>, <<>>, <<>>)
    /\ aOutputDir = <<>>
    /\ aSuffix = <<>>
    /\ aExtension = <<>>

\* The board and the header arguments while no header is built.
HeaderIdle ==
    /\ boardFileName = [path |-> <<>>, name |-> <<>>, ext |-> <<>>]
    /\ revision = <<>>
    /\ auxOrigin = [x |-> 0, y |-> 0]
    /\ useAuxOrigin = FALSE
    /\ timeZone = <<>>
    /\ aUseX1CompatibilityMode = FALSE
    /\ header = <<>>
    /\ gerberFiles = <<>>

\* The variables of the GUID calls while no such call is made.
GuidIdle == aText = <<>> /\ aText2 = <<>> /\ guid = <<>> /\ guid2 = <<>>

\* The variables of the layer functions while none of them is called.
LayersIdle == aLayer = -1 /\ copperLayerCount = 2

(***************************************************************************)
(* Strings                                                                 *)
(***************************************************************************)

\* The digits printf uses for %d and %x.
Digits == <<"0","1","2","3","4","5","6","7","8","9","a","b","c","d","e","f">>

RECURSIVE FormatUnsigned(_, _)
\* The digits of n >= 0 in the given base, most significant first.
FormatUnsigned(n, base) ==
    IF n < base THEN <<Digits[n + 1]>>
    ELSE FormatUnsigned(n \div base, base) \o <<Digits[(n % base) + 1]>>

\* printf "%d"
FormatDec(n) ==
    IF n < 0 THEN <<"-">> \o FormatUnsigned(-n, 10) ELSE FormatUnsigned(n, 10)

RECURSIVE Replace(_, _, _)
\* wxString::Replace( old, new ) with a one-character old string: every
\* occurrence of the character c is replaced by the string new.
Replace(s, c, new) ==
    IF s = <<>> THEN <<>>
    ELSE (IF Head(s) = c THEN new ELSE <<Head(s)>>) \o Replace(Tail(s), c, new)

\* Whether the character c occurs in s.
Contains(s, c) == \E i \in 1..Len(s) : s[i] = c

(***************************************************************************)
(* Layer identifiers (LAYER_ID) and IsCopperLayer                          *)
(***************************************************************************)
UNSELECTED_LAYER == -2
UNDEFINED_LAYER == -1
F_Cu == 0
B_Cu == 31
B_Adhes == 32
F_Adhes == 33
B_Paste == 34
F_Paste == 35
B_SilkS == 36
F_SilkS == 37
B_Mask == 38
F_Mask == 39
Dwgs_User == 40
Cmts_User == 41
Eco1_User == 42
Eco2_User == 43
Edge_Cuts == 44
Margin == 45
B_CrtYd == 46
F_CrtYd == 47
B_Fab == 48
F_Fab == 49
LAYER_ID_COUNT == 50

IsCopperLayer(aLayerId) == aLayerId >= F_Cu /\ aLayerId <= B_Cu

\* How many identifiers past the last LAYER_ID the model also passes in.
ExtraLayers == 2

\* Every LAYER_NUM the model passes to the layer functions: the two
\* negative markers, every LAYER_ID, and some values past the enumeration.
Layers == UNSELECTED_LAYER .. (LAYER_ID_COUNT - 1 + ExtraLayers)

\* The copper layer counts of the boards of the model.
CopperLayerCounts == {1, 2, 4, 16, 32}

(***************************************************************************)
(* GetGerberProtelExtension                                                *)
(***************************************************************************)
InnerCopperExtension_NoIncrement(layer) == <<"g">> \o FormatDec(layer)

\* wxString::Format( "g%d", aLayer+1 )
InnerCopperExtension(layer) == <<"g">> \o FormatDec(layer + 1)

GetGerberProtelExtension(layer) ==
    IF IsCopperLayer(layer)
    THEN IF layer = F_Cu THEN <<"g","t","l">>
         ELSE IF layer = B_Cu THEN <<"g","b","l">>
         ELSE InnerCopperExtension(layer)
    ELSE CASE layer = B_Adhes -> <<"g","b","a">>
           [] layer = F_Adhes -> <<"g","t","a">>
           [] layer = B_Paste -> <<"g","b","p">>
           [] layer = F_Paste -> <<"g","t","p">>
           [] layer = B_SilkS -> <<"g","b","o">>
           [] layer = F_SilkS -> <<"g","t","o">>
           [] layer = B_Mask -> <<"g","b","s">>
           [] layer = F_Mask -> <<"g","t","s">>
           [] layer = Edge_Cuts -> <<"g","m","1">>
           [] layer \in {Dwgs_User, Cmts_User, Eco1_User, Eco2_User} -> <<"g","b","r">>
           [] OTHER -> <<"g","b","r">>

(***************************************************************************)
(* GetGerberFileFunctionAttribute                                          *)
(***************************************************************************)
InnerCopperFunction_NoIncrement(layer) ==
    <<"C","o","p","p","e","r",",","L">> \o FormatDec(layer) \o <<",","I","n","r">>

\* attrib.Printf( "Copper,L%d,Inr", aLayer+1 )
InnerCopperFunction(layer) ==
    <<"C","o","p","p","e","r",",","L">> \o FormatDec(layer + 1) \o <<",","I","n","r">>

\* The switch that sets attrib.
FileFunctionAttrib(layer, count) ==
    CASE layer = F_Adhes -> <<"G","l","u","e",",","T","o","p">>
      [] layer = B_Adhes -> <<"G","l","u","e",",","B","o","t">>
      [] layer = F_SilkS -> <<"L","e","g","e","n","d",",","T","o","p">>
      [] layer = B_SilkS -> <<"L","e","g","e","n","d",",","B","o","t">>
      [] layer = F_Mask -> <<"S","o","l","d","e","r","m","a","s","k",",","T","o","p">>
      [] layer = B_Mask -> <<"S","o","l","d","e","r","m","a","s","k",",","B","o","t">>
      [] layer = F_Paste -> <<"P","a","s","t","e",",","T","o","p">>
      [] layer = B_Paste -> <<"P","a","s","t","e",",","B","o","t">>
      [] layer = Edge_Cuts -> <<"P","r","o","f","i","l","e",",","N","P">>
      [] layer = Dwgs_User -> <<"D","r","a","w","i","n","g">>
      [] layer = Cmts_User -> <<"O","t","h","e","r",",","C","o","m","m","e","n","t">>
      [] layer = Eco1_User -> <<"O","t","h","e","r",",","E","C","O","1">>
      [] layer = Eco2_User -> <<"O","t","h","e","r",",","E","C","O","2">>
      [] layer = B_Fab -> <<"O","t","h","e","r",",","F","a","b",",","B","o","t">>
      [] layer = F_Fab -> <<"O","t","h","e","r",",","F","a","b",",","T","o","p">>
      [] layer = B_Cu -> <<"C","o","p","p","e","r",",","L">> \o FormatDec(count) \o <<",","B","o","t">>
      [] layer = F_Cu -> <<"C","o","p","p","e","r",",","L","1",",","T","o","p">>
      [] OTHER -> IF IsCopperLayer(layer)
                  THEN InnerCopperFunction(layer)
                  ELSE <<"O","t","h","e","r",",","U","s","e","r">>

\* fileFct.Printf( "%%TF.FileFunction,%s*%%", attrib )
GetGerberFileFunctionAttribute(count, layer) ==
    <<"%","T","F",".","F","i","l","e","F","u","n","c","t","i","o","n",",">> \o FileFunctionAttrib(layer, count) \o <<"*","%">>

(***************************************************************************)
(* GetGerberFilePolarityAttribute                                          *)
(***************************************************************************)
Polarity_CopperForgotten(layer) ==
    CASE layer \in {F_Adhes, B_Adhes, F_SilkS, B_SilkS, F_Paste, B_Paste} -> 1
      [] layer \in {F_Mask, B_Mask} -> -1
      [] OTHER -> 0

\* The switch that sets polarity (0 when no case assigns it).
Polarity(layer) ==
    CASE layer \in {F_Adhes, B_Adhes, F_SilkS, B_SilkS, F_Paste, B_Paste} -> 1
      [] layer \in {F_Mask, B_Mask} -> -1
      [] OTHER -> IF IsCopperLayer(layer) THEN 1 ELSE 0

GetGerberFilePolarityAttribute(layer) ==
    LET polarity == Polarity(layer)
        afterPositive == IF polarity = 1
                         THEN <<"%","T","F",".","F","i","l","e","P","o","l","a","r","i","t","y",",","P","o","s","i","t","i","v","e","*","%">>
                         ELSE <<>>
    IN  IF polarity = -1 THEN <<"%","T","F",".","F","i","l","e","P","o","l","a","r","i","t","y",",","N","e","g","a","t","i","v","e","*","%">> ELSE afterPositive

(***************************************************************************)
(* The layer functions, each called on the layer and board drawn by Init   *)
(***************************************************************************)
InitLayers ==
    /\ op = "none"
    /\ ret = <<>>
    /\ aLayer \in Layers
    /\ copperLayerCount \in CopperLayerCounts
    /\ GuidIdle
    /\ FileIdle
    /\ HeaderIdle
    /\ ControllerIdle

CallGetGerberProtelExtension ==
    /\ op' = "GetGerberProtelExtension"
    /\ ret' = GetGerberProtelExtension(aLayer)
    /\ UNCHANGED <<layerVars, guidVars, fileVars, boardVars, headerVars,
                   ctlVars>>

CallGetGerberFileFunctionAttribute ==
    /\ op' = "GetGerberFileFunctionAttribute"
    /\ ret' = GetGerberFileFunctionAttribute(copperLayerCount, aLayer)
    /\ UNCHANGED <<layerVars, guidVars, fileVars, boardVars, headerVars,
                   ctlVars>>

CallGetGerberFilePolarityAttribute ==
    /\ op' = "GetGerberFilePolarityAttribute"
    /\ ret' = GetGerberFilePolarityAttribute(aLayer)
    /\ UNCHANGED <<layerVars, guidVars, fileVars, boardVars, headerVars,
                   ctlVars>>

NextLayers ==
    \/ CallGetGerberProtelExtension
    \/ CallGetGerberFileFunctionAttribute
    \/ CallGetGerberFilePolarityAttribute

SpecLayers == InitLayers /\ [][NextLayers]_vars

(***************************************************************************)
(* makeProjectGUIDfromString                                               *)
(***************************************************************************)

\* The ASCII characters of codes 32..95, in the order of their codes.
AsciiFrom32 ==
    <<" ","!">> \o <<"\"">> \o <<"#","$","%","&","'","(",")","*","+",",","-",".","/","0","1","2","3","4","5","6","7","8","9",":",";","<","=",">","?","@">>
    \o <<"A","B","C","D","E","F","G","H","I","J","K","L","M","N","O","P","Q","R","S","T","U","V","W","X","Y","Z","[">> \o <<"\\">> \o <<"]","^","_">>

\* The ASCII characters of codes 97..126, in the order of their codes.
AsciiFrom97 == <<"a","b","c","d","e","f","g","h","i","j","k","l","m","n","o","p","q","r","s","t","u","v","w","x","y","z","{","|","}","~">>

\* int( wxUniChar ): the code point of a character of the model.
CharCode(c) ==
    CASE c = "\t" -> 9
      [] c = "U+00E9" -> 233
      [] c = "U+0100" -> 256
      [] c = "U+0158" -> 344
      [] c = "U+4E2D" -> 20013
      [] \E i \in 1..Len(AsciiFrom32) : AsciiFrom32[i] = c ->
             31 + CHOOSE i \in 1..Len(AsciiFrom32) : AsciiFrom32[i] = c
      [] OTHER ->
             96 + CHOOSE i \in 1..Len(AsciiFrom97) : AsciiFrom97[i] = c

RECURSIVE Repeat(_, _)
\* wxString( ch, n ): n copies of the character c.
Repeat(c, n) == IF n <= 0 THEN <<>> ELSE <<c>> \o Repeat(c, n - 1)

FormatHex_NoPadding(n, precision) == FormatUnsigned(n, 16)

\* wxString::Format( "%2.2x" / "%3.3x", n ): n >= 0 in lower-case hexadecimal,
\* with leading zeros up to the precision.
FormatHex(n, precision) ==
    LET digits == FormatUnsigned(n, 16)
    IN  Repeat("0", precision - Len(digits)) \o digits

\* bname: the name, with 'X' appended when it is shorter than 16.
PaddedName(text) ==
    LET cnt == 16 - Len(text)
    IN  IF cnt > 0 THEN text \o Repeat("X", cnt) ELSE text

makeProjectGUIDfromString(text) ==
    LET bname == PaddedName(text)
        \* int( bname[i] ), i counted from 0
        b(i) == CharCode(bname[i + 1])
        \* int( bname[chr_idx++] ) & 0xFF, as "%2.2x"
        byte(i) == FormatHex(b(i) % 256, 2)
        \* int( bname[6] ) << 4 & 0xFF0, plus int( bname[7] ) >> 4 & 0x0F
        version == ((b(6) * 16) % 4096) + ((b(7) \div 16) % 16)
        \* ( int( bname[7] ) & 0x0F ) << 8, plus int( bname[8] ) & 0xFF
        tag == ((b(7) % 16) * 256) + (b(8) % 256)
    IN  byte(0) \o byte(1) \o byte(2) \o byte(3)
        \o <<"-">> \o byte(4) \o byte(5)
        \o <<"-", "1">> \o FormatHex(version, 3)
        \o <<"-", "9">> \o FormatHex(tag, 3)
        \o <<"-">> \o byte(9) \o byte(10) \o byte(11)
        \o byte(12) \o byte(13) \o byte(14)

(***************************************************************************)
(* makeProjectGUIDfromString, called on two names drawn by Init            *)
(***************************************************************************)

\* The characters of the names: ASCII ones and ones whose code point is
\* above 255 or has a low byte below 16.
NameChars == {"a", "X", "U+00E9", "U+0100"}

\* The longest name of which every spelling is tried.
MaxShortName == 2

RECURSIVE StringsUpTo(_, _)
\* Every string of at most n characters of the set chars.
StringsUpTo(chars, n) ==
    IF n = 0 THEN {<<>>}
    ELSE LET shorter == StringsUpTo(chars, n - 1)
         IN  shorter \cup {s \o <<c>> : s \in shorter, c \in chars}

\* The names: the short ones, and each of them extended to lengths
\* around 16.
Names ==
    {s \o Repeat(f, k) : s \in StringsUpTo(NameChars, MaxShortName),
                         f \in {"X", "a"}, k \in {0, 13, 14, 15, 16, 17}}

\* The names a second call is made with, for a first call with name: the
\* same name, the name padded or cut to 16, longer names that start with
\* those 16 characters, and names that differ within them.
SecondNames(name) ==
    LET padded == SubSeq(PaddedName(name), 1, 16)
    IN  {name, padded, padded \o <<"a">>, padded \o <<"U+0100", "X">>,
         name \o Repeat("U+0158", 16 - Len(name)),
         <<"b">> \o name, SubSeq(padded, 1, 14) \o <<"b", "b">>,
         SubSeq(padded, 1, 15) \o <<"b">>}

InitGUID ==
    /\ op = "none"
    /\ ret = <<>>
    /\ LayersIdle
    /\ aText \in Names
    /\ aText2 \in SecondNames(aText)
    /\ guid = <<>>
    /\ guid2 = <<>>
    /\ FileIdle
    /\ HeaderIdle
    /\ ControllerIdle

\* guid = makeProjectGUIDfromString( aText ); aText is copied, not changed.
CallMakeProjectGUID ==
    /\ op' = "makeProjectGUIDfromString"
    /\ ret' = makeProjectGUIDfromString(aText)
    /\ guid' = ret'
    /\ UNCHANGED <<layerVars, fileVars, boardVars, headerVars, ctlVars,
                   aText, aText2, guid2>>

\* The same call on the second name.
CallMakeProjectGUID2 ==
    /\ op' = "makeProjectGUIDfromString"
    /\ ret' = makeProjectGUIDfromString(aText2)
    /\ guid2' = ret'
    /\ UNCHANGED <<layerVars, fileVars, boardVars, headerVars, ctlVars,
                   aText, aText2, guid>>

NextGUID == CallMakeProjectGUID \/ CallMakeProjectGUID2

SpecGUID == InitGUID /\ [][NextGUID]_vars

(***************************************************************************)
(* BuildPlotFileName                                                       *)
(***************************************************************************)

\* wxSafeIsspace: the characters wxString::Trim removes.
IsSpace(c) == c \in {" ", "\t", "\n", "\r", "\f"}

RECURSIVE TrimLeft(_)
\* wxString::Trim( false )
TrimLeft(s) ==
    IF s # <<>> /\ IsSpace(Head(s)) THEN TrimLeft(Tail(s)) ELSE s

RECURSIVE TrimRight(_)
\* wxString::Trim( true )
TrimRight(s) ==
    IF s # <<>> /\ IsSpace(s[Len(s)])
    THEN TrimRight(SubSeq(s, 1, Len(s) - 1))
    ELSE s

\* wxFileName::GetForbiddenChars( wxPATH_DOS )
ForbiddenCharsDOS == <<"*", "?", "\\", "/", ":", "\"", "<", ">", "|">>

BadChars_PercentForgotten == ForbiddenCharsDOS

\* badchars, once '%' is appended to it.
BadChars == ForbiddenCharsDOS \o <<"%">>

RECURSIVE ReplaceBadChars(_, _, _)
\* for( ii = 0; ii < badchars.Len(); ii++ ) suffix.Replace( badchars[ii], "_" ),
\* from the index ii (counted from 0) on.
ReplaceBadChars(suffix, badchars, ii) ==
    IF ii < Len(badchars)
    THEN ReplaceBadChars(Replace(suffix, badchars[ii + 1], <<"_">>), badchars, ii + 1)
    ELSE suffix

\* The wxFileName that BuildPlotFileName leaves in *aFilename.
BuildPlotFileName(filename, outputDir, suffixArg, extension) ==
    LET suffix == ReplaceBadChars(TrimLeft(TrimRight(suffixArg)), BadChars, 0)
    IN  FileName(outputDir, IF suffix # <<>>
                            THEN filename.name \o <<"-">> \o suffix
                            ELSE filename.name,
                 extension)

(***************************************************************************)
(* BuildPlotFileName, called once on the arguments drawn by Init           *)
(***************************************************************************)

\* The characters of the suffixes: white space, every character the
\* function replaces, and characters it keeps.
SuffixChars ==
    {" ", "\t", "a", ".", "*", "?", "\\", "/", ":", "\"", "<", ">", "|", "%"}

\* The longest suffix.
MaxSuffixLen == 3

InitFileName ==
    /\ op = "none"
    /\ ret = <<>>
    /\ LayersIdle
    /\ GuidIdle
    /\ aFilename \in {FileName(<<>>, <<"b","o","a","r","d">>, <<>>),
                      FileName(<<"/","p","r","o","j">>, <<"b","-","1">>, <<"k","i","c","a","d","_","p","c","b">>)}
    /\ aOutputDir \in {<<"/","o","u","t">>}
    /\ aSuffix \in StringsUpTo(SuffixChars, MaxSuffixLen) \cup {<<" "," ","F","r","o","n","t","/","T","o","p",":","1"," ">>}
    /\ aExtension \in {<<"g","b","r">>, <<>>}
    /\ HeaderIdle
    /\ ControllerIdle

CallBuildPlotFileName ==
    /\ op = "none"
    /\ op' = "BuildPlotFileName"
    /\ aFilename' = BuildPlotFileName(aFilename, aOutputDir, aSuffix, aExtension)
    /\ UNCHANGED <<ret, layerVars, guidVars, boardVars, headerVars, ctlVars,
                   aOutputDir, aSuffix, aExtension>>

NextFileName == CallBuildPlotFileName

SpecFileName == InitFileName /\ [][NextFileName]_vars

(***************************************************************************)
(* makeStringCompatX1, AddGerberX2Header, AddGerberX2Attribute             *)
(***************************************************************************)

makeStringCompatX1_PercentKept(text, useX1CompatibilityMode) ==
    IF useX1CompatibilityMode THEN <<"G","0","4"," ","#","@","!"," ">> \o text ELSE text

\* The value makeStringCompatX1 leaves in aText and returns.
makeStringCompatX1(text, useX1CompatibilityMode) ==
    IF useX1CompatibilityMode
    THEN <<"G","0","4"," ","#","@","!"," ">> \o Replace(text, "%", <<>>)
    ELSE text

\* GetBuildVersion()
BuildVersion == <<"4",".","0",".","5">>

\* wxDateTime::FormatISOCombined() of the time of the call
IsoDate == <<"2","0","1","6","-","1","1","-","0","6","T","0","7",":","0","0",":","0","0">>

\* wxString::insert( pos, str, n ) with the whole of str
Insert(s, pos, str) == SubSeq(s, 1, pos) \o str \o SubSeq(s, pos + 1, Len(s))

\* wxString::ToAscii(): every non-ASCII character becomes '_'
ToAscii(s) == [i \in 1..Len(s) |-> IF CharCode(s[i]) < 128 THEN s[i] ELSE "_"]

\* wxFileName::GetFullName(): the name and, when there is one, the extension
GetFullName(fn) == IF fn.ext = <<>> THEN fn.name ELSE fn.name \o <<".">> \o fn.ext

\* printf "%x" of an int: its 32 bits read as an unsigned number.  For
\* n < 0 that number is 2^31 + m with m = n + 2^31: the first of its 8
\* digits is 8 plus the top 3 bits of m, the other 7 are the low 28 bits.
FormatHexInt(n) ==
    IF n >= 0 THEN FormatUnsigned(n, 16)
    ELSE LET m == (n + 2147483647) + 1
         IN  <<Digits[8 + (m \div 268435456) + 1]>>
             \o FormatHex(m % 268435456, 7)

\* text.Printf( "%%TF.GenerationSoftware,KiCad,Pcbnew,%s*%%", GetBuildVersion() )
GenerationSoftwareLine ==
    <<"%","T","F",".","G","e","n","e","r","a","t","i","o","n","S","o","f","t","w","a","r","e",",","K","i","C","a","d",",","P","c","b","n","e","w",",">> \o BuildVersion \o <<"*","%">>

\* text.Printf( "%%TF.CreationDate,%s%s*%%", date.FormatISOCombined(), msg )
CreationDateLine(msg) == <<"%","T","F",".","C","r","e","a","t","i","o","n","D","a","t","e",",">> \o IsoDate \o msg \o <<"*","%">>

\* The TF.ProjectId statement: the board name and the revision with ','
\* replaced by '_' and "rev?" for an empty revision, the GUID of the full
\* file name between them.
ProjectIdLine(fn, boardRevision) ==
    LET guidOfName == makeProjectGUIDfromString(GetFullName(fn))
        msg == Replace(fn.name, ",", <<"_">>)
        replaced == Replace(boardRevision, ",", <<"_">>)
        rev == IF replaced = <<>> THEN <<"r","e","v","?">> ELSE replaced
    IN  <<"%","T","F",".","P","r","o","j","e","c","t","I","d",",">> \o ToAscii(msg) \o <<",">> \o guidOfName
        \o <<",">> \o ToAscii(rev) \o <<"*","%">>

\* registration_id
RegistrationId(origin, useAux) ==
    IF useAux /\ origin.x # 0 /\ origin.y # 0
    THEN <<"P","X">> \o FormatHexInt(origin.x) \o <<"P","Y">> \o FormatHexInt(origin.y)
    ELSE <<"O","r","i","g","i","n","a","l">>

\* text.Printf( "%%TF.SameCoordinates,%s*%%", registration_id )
SameCoordinatesLine(origin, useAux) ==
    <<"%","T","F",".","S","a","m","e","C","o","o","r","d","i","n","a","t","e","s",",">> \o RegistrationId(origin, useAux) \o <<"*","%">>

\* The lines AddGerberX2Header gives to AddLineToHeader.  text is one
\* variable: makeStringCompatX1 changes it in place, and the Printf of the
\* creation date is the second operand of the comma that follows
\* msg.insert, so it runs only when msg is longer than 3 characters.
X2HeaderLines(fn, boardRevision, origin, useAux, tz, mode) ==
    LET line1 == makeStringCompatX1(GenerationSoftwareLine, mode)
        text2 == IF Len(tz) > 3
                 THEN CreationDateLine(Insert(tz, 3, <<":">>))
                 ELSE line1
        line2 == makeStringCompatX1(text2, mode)
        line3 == makeStringCompatX1(ProjectIdLine(fn, boardRevision), mode)
        line4 == makeStringCompatX1(SameCoordinatesLine(origin, useAux), mode)
    IN  <<line1, line2, line3, line4>>

\* The lines AddGerberX2Attribute gives to AddLineToHeader after the header.
X2LayerLines(count, layer, mode) ==
    LET fileFunction == GetGerberFileFunctionAttribute(count, layer)
        polarity == GetGerberFilePolarityAttribute(layer)
    IN  <<makeStringCompatX1(fileFunction, mode)>>
        \o (IF polarity # <<>>
            THEN <<makeStringCompatX1(polarity, mode)>>
            ELSE <<>>)

(***************************************************************************)
(* The header functions, called once on a new plotter                      *)
(***************************************************************************)

\* The board file names of the model.
BoardFileNames ==
    {FileName(<<"/","p","r","o","j">>, <<"b","o","a","r","d">>, <<"k","i","c","a","d","_","p","c","b">>),
     FileName(<<"/","p","r","o","j">>, <<"a", ",", "U+00E9", "%", "b">>, <<"k","i","c","a","d","_","p","c","b">>)}

\* The title block revisions of the model.
Revisions == {<<>>, <<"B">>, <<"1", ",", "U+4E2D">>, <<"A", "\t", "2">>}

\* The auxiliary origins of the model.
AuxOrigins ==
    {[x |-> 0, y |-> 0], [x |-> 0, y |-> 4096],
     [x |-> 255, y |-> 4096], [x |-> -1, y |-> 16]}

\* What wxDateTime::Format( "%z" ) gives: +hhmm or -hhmm, or only the
\* minutes.
TimeZones == {<<"+","0","1","0","0">>, <<"-","0","5","3","0">>, <<"+","0","0">>, <<"+","3","0">>}

\* The layers the attributes are built for.
HeaderLayers == {F_Cu, 1, B_Cu, F_Mask, B_SilkS, Edge_Cuts, Dwgs_User, Margin}

InitBoard ==
    /\ boardFileName \in BoardFileNames
    /\ revision \in Revisions
    /\ auxOrigin \in AuxOrigins
    /\ useAuxOrigin \in BOOLEAN
    /\ copperLayerCount \in {2, 4}

InitHeader ==
    /\ op = "none"
    /\ ret = <<>>
    /\ GuidIdle
    /\ FileIdle
    /\ InitBoard
    /\ aLayer \in HeaderLayers
    /\ timeZone \in TimeZones
    /\ aUseX1CompatibilityMode \in BOOLEAN
    /\ header = <<>>
    /\ gerberFiles = <<>>
    /\ ControllerIdle

AddGerberX2Header ==
    /\ op = "none"
    /\ op' = "AddGerberX2Header"
    /\ header' = header \o X2HeaderLines(boardFileName, revision, auxOrigin,
                                         useAuxOrigin, timeZone,
                                         aUseX1CompatibilityMode)
    /\ UNCHANGED <<ret, layerVars, guidVars, fileVars, boardVars, ctlVars,
                   timeZone, aUseX1CompatibilityMode, gerberFiles>>

AddGerberX2Attribute ==
    /\ op = "none"
    /\ op' = "AddGerberX2Attribute"
    /\ header' = header
                 \o X2HeaderLines(boardFileName, revision, auxOrigin,
                                  useAuxOrigin, timeZone,
                                  aUseX1CompatibilityMode)
                 \o X2LayerLines(copperLayerCount, aLayer,
                                 aUseX1CompatibilityMode)
    /\ UNCHANGED <<ret, layerVars, guidVars, fileVars, boardVars, ctlVars,
                   timeZone, aUseX1CompatibilityMode, gerberFiles>>

NextHeader == AddGerberX2Header \/ AddGerberX2Attribute

SpecHeader == InitHeader /\ [][NextHeader]_vars

(***************************************************************************)
(* PLOT_CONTROLLER                                                         *)
(***************************************************************************)

\* A PLOTTER as StartPlotBoard returns it.
NewPlotter(colorMode) ==
    [state |-> "live", endPlots |-> 0, colorMode |-> colorMode]

ClosePlotOn_EndPlotForgotten(plotter, all) ==
    IF plotter # NULL
    THEN [m_plotter |-> NULL,
          plotters |-> [all EXCEPT ![plotter].state = "deleted"],
          calls |-> <<<<"delete", plotter>>>>]
    ELSE [m_plotter |-> plotter, plotters |-> all, calls |-> <<>>]

\* ClosePlot() when m_plotter is plotter: what it leaves in m_plotter, what
\* becomes of the plotters, and the calls it makes.
ClosePlotOn(plotter, all) ==
    IF plotter # NULL
    THEN [m_plotter |-> NULL,
          plotters |-> [all EXCEPT ![plotter].endPlots = @ + 1,
                                   ![plotter].state = "deleted"],
          calls |-> <<<<"EndPlot", plotter>>, <<"delete", plotter>>>>]
    ELSE [m_plotter |-> plotter, plotters |-> all, calls |-> <<>>]

EnsurePreviousClosed_Forgotten(plotter, all) ==
    [m_plotter |-> plotter, plotters |-> all, calls |-> <<>>]

\* "Ensure that the previous plot is closed": the ClosePlot() call of
\* OpenPlotfile.
EnsurePreviousClosed(plotter, all) == ClosePlotOn(plotter, all)

\* GetDefaultPlotExtension( aFormat )
GetDefaultPlotExtension(format) ==
    CASE format = "GERBER" -> <<"g","b","r">>
      [] format = "PDF" -> <<"p","d","f">>
      [] format = "SVG" -> <<"s","v","g">>

\* The directory EnsureFileDirectoryExists leaves in outputDir: the output
\* directory itself when it is absolute, else the one of that name beside
\* the board file.
AbsoluteOutputDir(outputDirName, boardFile) ==
    IF outputDirName # <<>> /\ Head(outputDirName) = "/"
    THEN outputDirName
    ELSE boardFile.path \o <<"/">> \o outputDirName

\* The file extension OpenPlotfile chooses.
PlotFileExtension(format, options, layer) ==
    IF options.format = "GERBER" /\ options.useGerberProtelExtensions
    THEN GetGerberProtelExtension(layer)
    ELSE GetDefaultPlotExtension(format)

PlotFileOf_SuffixAccumulated(boardFile, outputDir, suffix, fileExt) ==
    BuildPlotFileName(IF m_plotFile.name = <<>>
                      THEN FileName(outputDir, boardFile.name, boardFile.ext)
                      ELSE m_plotFile,
                      outputDir, suffix, fileExt)

\* m_plotFile after OpenPlotfile has computed it.
PlotFileOf(boardFile, outputDir, suffix, fileExt) ==
    BuildPlotFileName(FileName(outputDir, boardFile.name, boardFile.ext),
                      outputDir, suffix, fileExt)

(***************************************************************************)
(* One PLOT_CONTROLLER, from its construction to its destruction           *)
(***************************************************************************)

\* How many plotters StartPlotBoard returns at most.
MaxPlotters == 3

\* The plot formats of the model.
PlotFormats == {"GERBER", "PDF"}

\* The suffixes given to OpenPlotfile.
ControllerSuffixes == {<<>>, <<"F",".","C","u">>, <<" ","a",":","b"," ">>}

\* The layers given to SetLayer.
ControllerLayers == {1, F_Mask}

\* PLOT_CONTROLLER( aBoard ), on a board and plot options drawn here.
InitController ==
    /\ op = "none"
    /\ ret = <<>>
    /\ LayersIdle
    /\ GuidIdle
    /\ FileIdle
    /\ boardFileName = FileName(<<"/","p","r","o","j">>, <<"b","o","a","r","d">>, <<"k","i","c","a","d","_","p","c","b">>)
    /\ revision = <<>>
    /\ auxOrigin = [x |-> 0, y |-> 0]
    /\ useAuxOrigin = FALSE
    /\ timeZone = <<>>
    /\ aUseX1CompatibilityMode = FALSE
    /\ header = <<>>
    /\ gerberFiles = <<>>
    /\ alive = TRUE
    /\ m_plotter = NULL
    /\ m_plotLayer = UNDEFINED_LAYER
    /\ m_plotFile = FileName(<<>>, <<>>, <<>>)
    /\ m_plotOptions \in [format : {"GERBER"},
                          useGerberProtelExtensions : BOOLEAN,
                          outputDirectory : {<<"p","l","o","t","s">>}]
    /\ plotters = <<>>
    /\ calls = <<>>

\* What no operation of the controller changes.
ControllerFrame ==
    UNCHANGED <<layerVars, guidVars, fileVars, boardVars, headerVars>>

\* ClosePlot()
ClosePlot ==
    /\ alive
    /\ LET closed == ClosePlotOn(m_plotter, plotters)
       IN  /\ m_plotter' = closed.m_plotter
           /\ plotters' = closed.plotters
           /\ calls' = closed.calls
    /\ op' = "ClosePlot"
    /\ UNCHANGED <<ret, alive, m_plotLayer, m_plotFile, m_plotOptions>>
    /\ ControllerFrame

\* ~PLOT_CONTROLLER()
Destroy ==
    /\ alive
    /\ LET closed == ClosePlotOn(m_plotter, plotters)
       IN  /\ m_plotter' = closed.m_plotter
           /\ plotters' = closed.plotters
           /\ calls' = closed.calls
    /\ alive' = FALSE
    /\ op' = "~PLOT_CONTROLLER"
    /\ UNCHANGED <<ret, m_plotLayer, m_plotFile, m_plotOptions>>
    /\ ControllerFrame

\* OpenPlotfile( aSuffix, aFormat, aSheetDesc ).  dirOk is what
\* EnsureFileDirectoryExists returns; started is whether StartPlotBoard
\* returns a plotter, whose colour mode is colorMode.
OpenPlotfileCall(suffix, format, dirOk, started, colorMode) ==
    /\ alive
    /\ started => Len(plotters) < MaxPlotters
    /\ LET options == [m_plotOptions EXCEPT !.format = format]
           closed == EnsurePreviousClosed(m_plotter, plotters)
           outputDir == AbsoluteOutputDir(options.outputDirectory, boardFileName)
           fileExt == PlotFileExtension(format, options, m_plotLayer)
           new == Len(closed.plotters) + 1
       IN  /\ m_plotOptions' = options
           /\ IF dirOk
              THEN /\ m_plotFile' = PlotFileOf(boardFileName, outputDir,
                                               suffix, fileExt)
                   /\ IF started
                      THEN /\ plotters' = Append(closed.plotters,
                                                 NewPlotter(colorMode))
                           /\ m_plotter' = new
                      ELSE /\ plotters' = closed.plotters
                           /\ m_plotter' = NULL
                   /\ calls' = closed.calls
                               \o <<<<"EnsureFileDirectoryExists", 1>>,
                                    <<"BuildPlotFileName", outputDir,
                                      suffix, fileExt>>,
                                    <<"StartPlotBoard", m_plotter'>>>>
              ELSE /\ m_plotFile' = m_plotFile
                   /\ plotters' = closed.plotters
                   /\ m_plotter' = closed.m_plotter
                   /\ calls' = closed.calls
                               \o <<<<"EnsureFileDirectoryExists", 0>>>>
           /\ ret' = (m_plotter' # NULL)
    /\ op' = "OpenPlotfile"
    /\ UNCHANGED <<alive, m_plotLayer>>
    /\ ControllerFrame

OpenPlotfile ==
    \E suffix \in ControllerSuffixes, format \in PlotFormats,
       dirOk \in BOOLEAN, started \in BOOLEAN, colorMode \in BOOLEAN :
        /\ ~(dirOk /\ started) => ~colorMode
        /\ ~dirOk => ~started
        /\ OpenPlotfileCall(suffix, format, dirOk, started, colorMode)

PlotLayer_NullUnchecked ==
    /\ alive
    /\ calls' = <<<<"PlotOneBoardLayer", m_plotter, m_plotLayer>>>>
    /\ ret' = TRUE
    /\ op' = "PlotLayer"
    /\ UNCHANGED <<alive, m_plotter, m_plotLayer, m_plotFile, m_plotOptions,
                   plotters>>
    /\ ControllerFrame

\* PlotLayer()
PlotLayer ==
    /\ alive
    /\ IF m_plotter = NULL
       THEN /\ ret' = FALSE
            /\ calls' = <<>>
       ELSE /\ calls' = <<<<"PlotOneBoardLayer", m_plotter, m_plotLayer>>>>
            /\ ret' = TRUE
    /\ op' = "PlotLayer"
    /\ UNCHANGED <<alive, m_plotter, m_plotLayer, m_plotFile, m_plotOptions,
                   plotters>>
    /\ ControllerFrame

\* SetColorMode( aColorMode )
SetColorMode ==
    \E aColorMode \in BOOLEAN :
        /\ alive
        /\ IF m_plotter = NULL
           THEN /\ plotters' = plotters
                /\ calls' = <<>>
           ELSE /\ plotters' = [plotters EXCEPT ![m_plotter].colorMode = aColorMode]
                /\ calls' = <<<<"SetColorMode", m_plotter>>>>
        /\ op' = "SetColorMode"
        /\ UNCHANGED <<ret, alive, m_plotter, m_plotLayer, m_plotFile,
                       m_plotOptions>>
        /\ ControllerFrame

\* GetColorMode()
GetColorMode ==
    /\ alive
    /\ IF m_plotter = NULL
       THEN /\ ret' = FALSE
            /\ calls' = <<>>
       ELSE /\ ret' = plotters[m_plotter].colorMode
            /\ calls' = <<<<"GetColorMode", m_plotter>>>>
    /\ op' = "GetColorMode"
    /\ UNCHANGED <<alive, m_plotter, m_plotLayer, m_plotFile, m_plotOptions,
                   plotters>>
    /\ ControllerFrame

\* SetLayer( aLayer )
SetLayer ==
    \E layer \in ControllerLayers :
        /\ alive
        /\ m_plotLayer' = layer
        /\ calls' = <<>>
        /\ op' = "SetLayer"
        /\ UNCHANGED <<ret, alive, m_plotter, m_plotFile, m_plotOptions,
                       plotters>>
        /\ ControllerFrame

NextController ==
    \/ OpenPlotfile
    \/ ClosePlot
    \/ PlotLayer
    \/ SetColorMode
    \/ GetColorMode
    \/ SetLayer
    \/ Destroy

SpecController == InitController /\ [][NextController]_vars

(***************************************************************************)
(* The Gerber files of one board, plotted one after the other              *)
(***************************************************************************)

\* The offset the plot of a file is made with: the auxiliary origin when
\* the plot options use it, else the origin of the absolute coordinates.
PlotOrigin(origin, useAux) == IF useAux THEN origin ELSE [x |-> 0, y |-> 0]

\* How many Gerber files are plotted at most.
MaxGerberFiles == 2

\* A board, and plot options that do not use the auxiliary origin yet.
InitGerberFiles ==
    /\ op = "none"
    /\ ret = <<>>
    /\ LayersIdle
    /\ GuidIdle
    /\ FileIdle
    /\ ControllerIdle
    /\ boardFileName \in BoardFileNames
    /\ revision \in {<<>>, <<"B">>}
    /\ auxOrigin \in AuxOrigins
    /\ useAuxOrigin = FALSE
    /\ timeZone \in {<<"+","0","1","0","0">>, <<"+","0","0">>}
    /\ aUseX1CompatibilityMode \in BOOLEAN
    /\ header = <<>>
    /\ gerberFiles = <<>>

\* PCB_PLOT_PARAMS::SetUseAuxOrigin( aAux ) on the plot options of the board
SetUseAuxOrigin ==
    \E aAux \in BOOLEAN :
        /\ useAuxOrigin' = aAux
        /\ op' = "SetUseAuxOrigin"
        /\ UNCHANGED <<ret, layerVars, guidVars, fileVars, headerVars, ctlVars,
                       boardFileName, revision, auxOrigin>>

\* One more Gerber file is plotted: AddGerberX2Header on the plotter of the
\* new file, which plots with the offset of the plot options.
PlotGerberFile ==
    /\ Len(gerberFiles) < MaxGerberFiles
    /\ header' = X2HeaderLines(boardFileName, revision, auxOrigin,
                               useAuxOrigin, timeZone,
                               aUseX1CompatibilityMode)
    /\ gerberFiles' = Append(gerberFiles,
                             [header |-> header',
                              plotOrigin |-> PlotOrigin(auxOrigin,
                                                        useAuxOrigin)])
    /\ op' = "AddGerberX2Header"
    /\ UNCHANGED <<ret, layerVars, guidVars, fileVars, boardVars, ctlVars,
                   timeZone, aUseX1CompatibilityMode>>

NextGerberFiles == SetUseAuxOrigin \/ PlotGerberFile

SpecGerberFiles == InitGerberFiles /\ [][NextGerberFiles]_vars

(***************************************************************************)
(* Properties of the layer functions                                       *)
(***************************************************************************)

RECURSIVE DecValue(_)
\* The number a string of decimal digits denotes (-1 when s is no such string).
DecValue(s) ==
    IF s = <<>> THEN -1
    ELSE LET d == CHOOSE k \in 0..10 : k = 10 \/ Digits[k + 1] = s[Len(s)]
             rest == SubSeq(s, 1, Len(s) - 1)
         IN  IF d = 10 THEN -1
             ELSE IF rest = <<>> THEN d
             ELSE IF DecValue(rest) < 0 THEN -1
             ELSE 10 * DecValue(rest) + d

\* Whether s starts with the string p.
StartsWith(s, p) == Len(s) >= Len(p) /\ SubSeq(s, 1, Len(p)) = p

\* Whether s ends with the string p.
EndsWith(s, p) == Len(s) >= Len(p) /\ SubSeq(s, Len(s) - Len(p) + 1, Len(s)) = p

\* s without its first n and its last m characters.
Strip(s, n, m) == SubSeq(s, n + 1, Len(s) - m)

\* The label the file-function attribute gives each named non-copper layer.
FixedFunctionLabel ==
    (F_Adhes :> <<"G","l","u","e",",","T","o","p">>) @@ (B_Adhes :> <<"G","l","u","e",",","B","o","t">>) @@
    (F_SilkS :> <<"L","e","g","e","n","d",",","T","o","p">>) @@ (B_SilkS :> <<"L","e","g","e","n","d",",","B","o","t">>) @@
    (F_Mask :> <<"S","o","l","d","e","r","m","a","s","k",",","T","o","p">>) @@ (B_Mask :> <<"S","o","l","d","e","r","m","a","s","k",",","B","o","t">>) @@
    (F_Paste :> <<"P","a","s","t","e",",","T","o","p">>) @@ (B_Paste :> <<"P","a","s","t","e",",","B","o","t">>) @@
    (Edge_Cuts :> <<"P","r","o","f","i","l","e",",","N","P">>) @@ (Dwgs_User :> <<"D","r","a","w","i","n","g">>) @@
    (Cmts_User :> <<"O","t","h","e","r",",","C","o","m","m","e","n","t">>) @@ (Eco1_User :> <<"O","t","h","e","r",",","E","C","O","1">>) @@
    (Eco2_User :> <<"O","t","h","e","r",",","E","C","O","2">>) @@ (B_Fab :> <<"O","t","h","e","r",",","F","a","b",",","B","o","t">>) @@
    (F_Fab :> <<"O","t","h","e","r",",","F","a","b",",","T","o","p">>)

\* C8: GetGerberFileFunctionAttribute returns, for every layer identifier,
\* "%TF.FileFunction,<value>*%" with a non-empty <value> holding no "%":
\* Copper,L1,Top for front copper, Copper,L<copperLayerCount>,Bot for back
\* copper, Copper,L<N+1>,Inr for the inner copper layer of ordinal N, the
\* fixed label of each named layer and Other,User for every other layer.
C8_FileFunctionTotal ==
    op = "GetGerberFileFunctionAttribute" =>
        /\ StartsWith(ret, <<"%","T","F",".","F","i","l","e","F","u","n","c","t","i","o","n",",">>)
        /\ EndsWith(ret, <<"*","%">>)
        /\ LET value == Strip(ret, Len(<<"%","T","F",".","F","i","l","e","F","u","n","c","t","i","o","n",",">>), Len(<<"*","%">>))
           IN  /\ value # <<>>
               /\ ~Contains(value, "%")
               /\ aLayer = F_Cu => value = <<"C","o","p","p","e","r",",","L","1",",","T","o","p">>
               /\ aLayer = B_Cu =>
                      /\ StartsWith(value, <<"C","o","p","p","e","r",",","L">>)
                      /\ EndsWith(value, <<",","B","o","t">>)
                      /\ DecValue(Strip(value, 8, 4)) = copperLayerCount
               /\ IsCopperLayer(aLayer) /\ aLayer \notin {F_Cu, B_Cu} =>
                      /\ StartsWith(value, <<"C","o","p","p","e","r",",","L">>)
                      /\ EndsWith(value, <<",","I","n","r">>)
                      /\ DecValue(Strip(value, 8, 4)) = aLayer + 1
               /\ aLayer \in DOMAIN FixedFunctionLabel =>
                      value = FixedFunctionLabel[aLayer]
               /\ ~IsCopperLayer(aLayer) /\ aLayer \notin DOMAIN FixedFunctionLabel =>
                      value = <<"O","t","h","e","r",",","U","s","e","r">>

\* An inner copper layer's file function has been computed.
C8_Witness ==
    /\ op = "GetGerberFileFunctionAttribute"
    /\ aLayer = 5
    /\ ret = <<"%","T","F",".","F","i","l","e","F","u","n","c","t","i","o","n",",","C","o","p","p","e","r",",","L","6",",","I","n","r","*","%">>

\* The legacy extension of each non-copper layer that has one of its own.
FixedProtelCode ==
    (B_Adhes :> <<"g","b","a">>) @@ (F_Adhes :> <<"g","t","a">>) @@
    (B_Paste :> <<"g","b","p">>) @@ (F_Paste :> <<"g","t","p">>) @@
    (B_SilkS :> <<"g","b","o">>) @@ (F_SilkS :> <<"g","t","o">>) @@
    (B_Mask :> <<"g","b","s">>) @@ (F_Mask :> <<"g","t","s">>) @@
    (Edge_Cuts :> <<"g","m","1">>)

\* C9: GetGerberProtelExtension returns an extension for every layer
\* identifier: gtl for front copper, gbl for back copper, g<N+1> for any
\* other copper layer of ordinal N; for the non-copper layers the fixed
\* codes of adhesive, paste, silkscreen, mask and edge-cuts, which differ
\* from each other and from gbr, and gbr for every other layer.
C9_ProtelExtensionTotal ==
    op = "GetGerberProtelExtension" =>
        /\ Len(ret) >= 2
        /\ aLayer = F_Cu => ret = <<"g","t","l">>
        /\ aLayer = B_Cu => ret = <<"g","b","l">>
        /\ IsCopperLayer(aLayer) /\ aLayer \notin {F_Cu, B_Cu} =>
               /\ Head(ret) = "g"
               /\ DecValue(Tail(ret)) = aLayer + 1
        /\ aLayer \in DOMAIN FixedProtelCode =>
               /\ ret = FixedProtelCode[aLayer]
               /\ ret # <<"g","b","r">>
               /\ \A other \in DOMAIN FixedProtelCode :
                      other # aLayer => FixedProtelCode[other] # ret
        /\ ~IsCopperLayer(aLayer) /\ aLayer \notin DOMAIN FixedProtelCode =>
               ret = <<"g","b","r">>

\* An inner copper layer's legacy extension has been computed.
C9_Witness ==
    /\ op = "GetGerberProtelExtension"
    /\ aLayer = 5
    /\ ret = <<"g","6">>

\* The layers whose image is a pattern in a material, by kind.
AdhesiveLayers == {F_Adhes, B_Adhes}
SilkscreenLayers == {F_SilkS, B_SilkS}
PasteLayers == {F_Paste, B_Paste}
MaskLayers == {F_Mask, B_Mask}

\* C10: GetGerberFilePolarityAttribute returns the empty string for exactly
\* the layers that are neither adhesive, silkscreen, paste, mask nor copper,
\* the Positive line for every adhesive, silkscreen, paste and copper layer
\* and the Negative line for both mask layers.
C10_FilePolarity ==
    op = "GetGerberFilePolarityAttribute" =>
        /\ ret = <<>> <=>
               /\ aLayer \notin AdhesiveLayers \cup SilkscreenLayers
               /\ aLayer \notin PasteLayers \cup MaskLayers
               /\ ~IsCopperLayer(aLayer)
        /\ aLayer \in AdhesiveLayers \cup SilkscreenLayers \cup PasteLayers =>
               ret = <<"%","T","F",".","F","i","l","e","P","o","l","a","r","i","t","y",",","P","o","s","i","t","i","v","e","*","%">>
        /\ IsCopperLayer(aLayer) => ret = <<"%","T","F",".","F","i","l","e","P","o","l","a","r","i","t","y",",","P","o","s","i","t","i","v","e","*","%">>
        /\ aLayer \in MaskLayers => ret = <<"%","T","F",".","F","i","l","e","P","o","l","a","r","i","t","y",",","N","e","g","a","t","i","v","e","*","%">>

\* The polarity of an inner copper layer has been computed.
C10_Witness ==
    /\ op = "GetGerberFilePolarityAttribute"
    /\ aLayer = 7
    /\ ret = <<"%","T","F",".","F","i","l","e","P","o","l","a","r","i","t","y",",","P","o","s","i","t","i","v","e","*","%">>

(***************************************************************************)
(* Properties of makeProjectGUIDfromString                                 *)
(***************************************************************************)

HexDigits == {Digits[i] : i \in 1..16}

\* ^[0-9a-f]{8}-[0-9a-f]{4}-1[0-9a-f]{3}-9[0-9a-f]{3}-[0-9a-f]{12}$
MatchesGuidPattern(s) ==
    /\ Len(s) = 36
    /\ \A i \in 1..36 :
           CASE i \in {9, 14, 19, 24} -> s[i] = "-"
             [] i = 15 -> s[i] = "1"
             [] i = 20 -> s[i] = "9"
             [] OTHER -> s[i] \in HexDigits

\* The bytes the first 16 characters of the name, once padded with 'X',
\* stand for: the low 8 bits of each character's code.
First16(name) ==
    LET padded == name \o Repeat("X", 16 - Len(name))
    IN  [i \in 1..16 |-> CharCode(padded[i]) % 256]

\* C6: the GUID of every name, empty, shorter or longer than 16 characters,
\* matches the RFC4122 pattern with version 1 and tag 9, and two names that
\* agree on their first 16 bytes after padding with 'X' (the same name
\* among them) get the same GUID.
C6_ProjectGUID ==
    /\ guid # <<>> => MatchesGuidPattern(guid)
    /\ guid2 # <<>> => MatchesGuidPattern(guid2)
    /\ guid # <<>> /\ guid2 # <<>> /\ First16(aText) = First16(aText2) =>
           guid = guid2

\* Two different names, one shorter than 16 characters and one longer, that
\* agree once padded have both got their GUID.
C6_Witness ==
    /\ guid # <<>> /\ guid2 # <<>>
    /\ Len(aText) < 16 /\ Len(aText2) > 16
    /\ aText2 # aText \o Repeat("X", Len(aText2) - Len(aText))
    /\ First16(aText) = First16(aText2)
    /\ guid = guid2

(***************************************************************************)
(* Properties of BuildPlotFileName                                         *)
(***************************************************************************)

\* The characters the sanitized suffix may not hold.
ForbiddenInSuffix == {"*", "?", "\\", "/", ":", "\"", "<", ">", "|", "%"}

\* Whether t is the suffix s sanitized: s without the white space at its
\* two ends, each forbidden character replaced by '_' where it stands.
IsSanitized(t, s) ==
    IF \A i \in 1..Len(s) : IsSpace(s[i])
    THEN t = <<>>
    ELSE LET first == CHOOSE i \in 1..Len(s) :
                          ~IsSpace(s[i]) /\ \A j \in 1..(i - 1) : IsSpace(s[j])
             last == CHOOSE i \in 1..Len(s) :
                         ~IsSpace(s[i]) /\ \A j \in (i + 1)..Len(s) : IsSpace(s[j])
         IN  /\ Len(t) = last - first + 1
             /\ \A k \in 1..Len(t) :
                    t[k] = IF s[first + k - 1] \in ForbiddenInSuffix
                           THEN "_"
                           ELSE s[first + k - 1]

\* What a call of BuildPlotFileName that starts with the file name before
\* and ends with the file name after has to satisfy.
BuildPlotFileNameContract(before, after) ==
    /\ after.path = aOutputDir
    /\ after.ext = aExtension
    /\ StartsWith(after.name, before.name)
    /\ LET added == SubSeq(after.name, Len(before.name) + 1, Len(after.name))
       IN  \/ /\ added = <<>>
              /\ IsSanitized(<<>>, aSuffix)
           \/ /\ Len(added) >= 2
              /\ Head(added) = "-"
              /\ IsSanitized(Tail(added), aSuffix)
              /\ \A i \in 2..Len(added) : added[i] \notin ForbiddenInSuffix
              /\ ~IsSpace(added[2])
              /\ ~IsSpace(added[Len(added)])

C7_WitnessEmpty ==
    /\ op = "BuildPlotFileName"
    /\ aSuffix = <<" ", "\t">>
    /\ aFilename.name = <<"b","o","a","r","d">>

(***************************************************************************)
(* Properties of AddGerberX2Header and AddGerberX2Attribute                *)
(***************************************************************************)

\* The comment marker of the compatibility form.
X1Prefix == <<"G","0","4"," ","#","@","!"," ">>

\* Whether line is the statement of the attribute called name, as an X2
\* statement or in the compatibility form.
IsAttribute(line, name) ==
    \/ StartsWith(line, <<"%","T","F",".">> \o name \o <<",">>)
    \/ StartsWith(line, X1Prefix \o <<"T","F",".">> \o name \o <<",">>)

\* The attributes AddGerberX2Attribute is to state for the layer, in order.
AttributesInOrder(layer) ==
    <<<<"G","e","n","e","r","a","t","i","o","n","S","o","f","t","w","a","r","e">>, <<"C","r","e","a","t","i","o","n","D","a","t","e">>, <<"P","r","o","j","e","c","t","I","d">>,
      <<"S","a","m","e","C","o","o","r","d","i","n","a","t","e","s">>, <<"F","i","l","e","F","u","n","c","t","i","o","n">>>>
    \o (IF GetGerberFilePolarityAttribute(layer) # <<>>
        THEN <<<<"F","i","l","e","P","o","l","a","r","i","t","y">>>>
        ELSE <<>>)

\* C4: AddGerberX2Attribute appends the generation-software, creation-date,
\* project-id, same-coordinates and file-function lines in this order, and
\* then the file-polarity line if and only if the layer has a polarity: 6
\* lines with a polarity and 5 without, none of them twice.
C4_AttributeOrder ==
    op = "AddGerberX2Attribute" =>
        LET expected == AttributesInOrder(aLayer)
        IN  /\ Len(header) = Len(expected)
            /\ Len(header) =
                   IF GetGerberFilePolarityAttribute(aLayer) # <<>> THEN 6 ELSE 5
            /\ \A i \in 1..Len(header) : IsAttribute(header[i], expected[i])
            /\ \A i, j \in 1..Len(header) : i # j => header[i] # header[j]

\* How many times the string p occurs in s.
Occurrences(p, s) ==
    Cardinality({i \in 1..Len(s) : StartsWith(SubSeq(s, i, Len(s)), p)})

\* The untransformed attribute lines of the board and the layer.
AttributeLines ==
    {GenerationSoftwareLine,
     CreationDateLine(IF Len(timeZone) > 3
                      THEN Insert(timeZone, 3, <<":">>)
                      ELSE timeZone),
     ProjectIdLine(boardFileName, revision),
     SameCoordinatesLine(auxOrigin, useAuxOrigin),
     GetGerberFileFunctionAttribute(copperLayerCount, aLayer),
     GetGerberFilePolarityAttribute(aLayer)} \ {<<>>}

NotPercent(c) == c # "%"

\* s without its '%' characters.
WithoutPercent(s) == SelectSeq(s, NotPercent)

\* C5: every line AddGerberX2Header and AddGerberX2Attribute emit has been
\* through the compatibility transform exactly once: without compatibility
\* mode it is an attribute line unchanged, with it an attribute line
\* without its '%' behind one "G04 #@! ", so that it holds no '%' and the
\* marker occurs once, at its start.
C5_TransformOnce ==
    op \in {"AddGerberX2Header", "AddGerberX2Attribute"} =>
        \A i \in 1..Len(header) :
            IF aUseX1CompatibilityMode
            THEN /\ \E a \in AttributeLines :
                        header[i] = X1Prefix \o WithoutPercent(a)
                 /\ ~Contains(header[i], "%")
                 /\ StartsWith(header[i], X1Prefix)
                 /\ Occurrences(X1Prefix, header[i]) = 1
            ELSE header[i] \in AttributeLines

(***************************************************************************)
(* Properties of PLOT_CONTROLLER                                           *)
(***************************************************************************)

\* The plotters that have been created and not deleted.
LivePlotters == {b \in 1..Len(plotters) : plotters[b].state = "live"}

\* At most one plotter is live, it is the one the controller holds and it
\* has not been ended; every other plotter created has been ended exactly
\* once and deleted; a destroyed controller leaves none live.
OneBackendFinalizedOnce ==
    /\ Cardinality(LivePlotters) <= 1
    /\ m_plotter # NULL => m_plotter \in LivePlotters
    /\ \A b \in LivePlotters : b = m_plotter /\ plotters[b].endPlots = 0
    /\ \A b \in 1..Len(plotters) :
           b \notin LivePlotters =>
               plotters[b].state = "deleted" /\ plotters[b].endPlots = 1
    /\ ~alive => LivePlotters = {}

\* The plotter held is ended and then deleted by ClosePlot, by the
\* destructor, and by OpenPlotfile before it starts another plot; ClosePlot
\* on a closed controller ends nothing.
ReleasedOnEveryPath ==
    /\ op' \in {"ClosePlot", "~PLOT_CONTROLLER"} /\ m_plotter # NULL =>
           /\ calls' = <<<<"EndPlot", m_plotter>>, <<"delete", m_plotter>>>>
           /\ m_plotter' = NULL
    /\ op' = "OpenPlotfile" /\ m_plotter # NULL =>
           /\ Len(calls') >= 3
           /\ SubSeq(calls', 1, 2) =
                  <<<<"EndPlot", m_plotter>>, <<"delete", m_plotter>>>>
           /\ m_plotter' # m_plotter
    /\ op' = "ClosePlot" /\ m_plotter = NULL =>
           /\ calls' = <<>>
           /\ plotters' = plotters
           /\ m_plotter' = NULL

\* C1: over any sequence of OpenPlotfile, PlotLayer, ClosePlot calls ended
\* by the destruction of the controller, the controller holds at most one
\* live backend, and every backend it created is ended with EndPlot exactly
\* once and deleted: before the next one is created, on ClosePlot, or at
\* destruction.  ClosePlot on a closed controller ends nothing.
C1_OneBackendFinalizedOnce ==
    []OneBackendFinalizedOnce /\ [][ReleasedOnEveryPath]_vars

\* A second plot has been opened while a first one was open: the first
\* plotter was ended and deleted, the second one is held.
C1_Witness ==
    /\ op = "OpenPlotfile"
    /\ Len(plotters) = 2
    /\ plotters[1].state = "deleted" /\ plotters[1].endPlots = 1
    /\ m_plotter = 2
    /\ calls[1] = <<"EndPlot", 1>>

\* EnsureFileDirectoryExists has failed in the last operation.
DirectoryFailed ==
    \E i \in 1..Len(calls) : calls[i] = <<"EnsureFileDirectoryExists", 0>>

\* StartPlotBoard has returned no plotter in the last operation.
FactoryFailed ==
    \E i \in 1..Len(calls) : calls[i] = <<"StartPlotBoard", NULL>>

\* C2: OpenPlotfile returns true exactly when the controller holds a
\* plotter on return; when the output directory cannot be ensured or
\* StartPlotBoard returns no plotter it returns false and the controller
\* holds none, whatever it held before the call.
C2_OpenResult ==
    op = "OpenPlotfile" =>
        /\ ret = TRUE <=> m_plotter # NULL
        /\ ret = FALSE <=> m_plotter = NULL
        /\ DirectoryFailed \/ FactoryFailed =>
               /\ ret = FALSE
               /\ m_plotter = NULL
               /\ LivePlotters = {}

\* OpenPlotfile has failed on the directory while a plot was open: that
\* plot was closed.
C2_Witness ==
    /\ op = "OpenPlotfile"
    /\ DirectoryFailed
    /\ ret = FALSE
    /\ calls[1] = <<"EndPlot", 1>>
    /\ plotters[1].state = "deleted"

\* What a step of PlotLayer, SetColorMode or GetColorMode has to satisfy.
RenderingContract ==
    /\ op' = "PlotLayer" /\ m_plotter = NULL =>
           ret' = FALSE /\ calls' = <<>> /\ m_plotter' = NULL
           /\ plotters' = plotters
    /\ op' = "GetColorMode" /\ m_plotter = NULL =>
           ret' = FALSE /\ calls' = <<>> /\ m_plotter' = NULL
           /\ plotters' = plotters
    /\ op' = "SetColorMode" /\ m_plotter = NULL =>
           calls' = <<>> /\ m_plotter' = NULL /\ plotters' = plotters
    /\ op' = "PlotLayer" /\ m_plotter # NULL =>
           /\ ret' = TRUE
           /\ calls' = <<<<"PlotOneBoardLayer", m_plotter, m_plotLayer>>>>
           /\ m_plotter' = m_plotter
           /\ plotters' = plotters
           /\ plotters[m_plotter].state = "live"

\* C3: on a closed controller PlotLayer and GetColorMode return false, and
\* PlotLayer, SetColorMode and GetColorMode call nothing and leave it
\* closed; on an open one PlotLayer has the bound layer rendered exactly
\* once, returns true and leaves the controller open with the same plotter.
C3_RenderingContract == [][RenderingContract]_vars

\* PlotLayer has rendered the layer of an open plot.
C3_Witness ==
    /\ op = "PlotLayer"
    /\ ret = TRUE
    /\ m_plotter # NULL
    /\ m_plotLayer = F_Mask
    /\ calls = <<<<"PlotOneBoardLayer", m_plotter, F_Mask>>>>

\* PlotLayer has refused to render on a closed controller.
C3_WitnessClosed ==
    /\ op = "PlotLayer"
    /\ ret = FALSE
    /\ m_plotter = NULL
    /\ calls = <<>>

(***************************************************************************)
(* Properties of the TF.ProjectId and TF.SameCoordinates lines             *)
(***************************************************************************)

RECURSIVE SplitOn(_, _)
\* The fields of s that the character sep separates.
SplitOn(s, sep) ==
    IF \E i \in 1..Len(s) : s[i] = sep
    THEN LET first == CHOOSE i \in 1..Len(s) :
                          s[i] = sep /\ \A j \in 1..(i - 1) : s[j] # sep
         IN  <<SubSeq(s, 1, first - 1)>>
             \o SplitOn(SubSeq(s, first + 1, Len(s)), sep)
    ELSE <<s>>

\* Whether c is a printable character of 7-bit ASCII.
IsPrintableAscii(c) == CharCode(c) \in 32..126

\* Whether field is text as the project-id line is to state it: of the same
\* length, '_' for each comma, and every printable ASCII character kept.
IsIdentityFieldOf(field, text) ==
    /\ Len(field) = Len(text)
    /\ \A i \in 1..Len(field) :
           /\ IsPrintableAscii(field[i])
           /\ field[i] # ","
           /\ text[i] = "," => field[i] = "_"
           /\ IsPrintableAscii(text[i]) /\ text[i] # "," => field[i] = text[i]

\* The statement of an emitted line: the line between its '%' or, in the
\* compatibility form, behind the comment marker.
StatementOf(line) ==
    IF aUseX1CompatibilityMode
    THEN Strip(line, Len(X1Prefix), 0)
    ELSE Strip(line, 1, 1)

\* Whether line is delimited as its form requires.
IsDelimited(line) ==
    /\ IF aUseX1CompatibilityMode
       THEN StartsWith(line, X1Prefix)
       ELSE StartsWith(line, <<"%">>) /\ EndsWith(line, <<"%">>)
    /\ EndsWith(StatementOf(line), <<"*">>)

\* text as the compatibility transform leaves it inside a line.
AsEmitted(text) ==
    IF aUseX1CompatibilityMode THEN WithoutPercent(text) ELSE text

SameCoordinatesKey(file) ==
    LET fields == SplitOn(Strip(StatementOf(file.header[4]), 0, 1), ",")
    IN  fields[2]

\* C12: the Gerber files of a board that state the same TF.SameCoordinates
\* key are plotted with the same origin: the absolute coordinates when the
\* auxiliary origin is not used, the auxiliary origin when it is.
C12_SameKeySameOrigin ==
    \A i, j \in 1..Len(gerberFiles) :
        /\ IsAttribute(gerberFiles[i].header[4], <<"S","a","m","e","C","o","o","r","d","i","n","a","t","e","s">>)
        /\ SameCoordinatesKey(gerberFiles[i]) = SameCoordinatesKey(gerberFiles[j])
               => gerberFiles[i].plotOrigin = gerberFiles[j].plotOrigin

(***************************************************************************)
(* Properties of the plot file name of PLOT_CONTROLLER                     *)
(***************************************************************************)

\* The BuildPlotFileName calls of the last operation, with their arguments.
BuildPlotFileNameCalls ==
    {i \in 1..Len(calls) : calls[i][1] = "BuildPlotFileName"}

\* Whether name is base with the suffix sanitized and appended once behind
\* a '-', or base alone when the suffix sanitized is empty.
IsNameWithOneSuffix(name, base, suffix) ==
    /\ StartsWith(name, base)
    /\ LET added == SubSeq(name, Len(base) + 1, Len(name))
       IN  IF added = <<>>
           THEN IsSanitized(<<>>, suffix)
           ELSE /\ Len(added) >= 2
                /\ Head(added) = "-"
                /\ IsSanitized(Tail(added), suffix)

\* The extension of a plot file of the format and the layer, under the
\* plot options.
SelectedExtension(options, layer) ==
    IF options.format = "GERBER" /\ options.useGerberProtelExtensions
    THEN GetGerberProtelExtension(layer)
    ELSE GetDefaultPlotExtension(options.format)

\* C13: the plot file name an OpenPlotfile call computes depends on the
\* inputs of that call only (the board file name, the output directory of
\* the plot options, the suffix of the call, the extension of its format
\* and layer): after any earlier OpenPlotfile and ClosePlot calls with other
\* suffixes it is <board base name>-<sanitized suffix> with that one suffix
\* (the base name alone for a suffix that is empty once sanitized), never
\* with the suffixes of earlier calls.
C13_PlotFileNameOfThisCall ==
    op = "OpenPlotfile" =>
        \A i \in BuildPlotFileNameCalls :
            /\ Cardinality(BuildPlotFileNameCalls) = 1
            /\ m_plotFile.path =
                   AbsoluteOutputDir(m_plotOptions.outputDirectory, boardFileName)
            /\ calls[i][2] = m_plotFile.path
            /\ IsNameWithOneSuffix(m_plotFile.name, boardFileName.name,
                                   calls[i][3])
            /\ m_plotFile.ext = SelectedExtension(m_plotOptions, m_plotLayer)

\* A second plot has been opened with the suffix " a:b " while a first one
\* was open: its file is board-a_b.
C13_Witness ==
    /\ op = "OpenPlotfile"
    /\ Len(calls) = 5
    /\ calls[1] = <<"EndPlot", 1>>
    /\ calls[4][1] = "BuildPlotFileName"
    /\ calls[4][3] = <<" ","a",":","b"," ">>
    /\ m_plotter = 2
    /\ m_plotFile = FileName(<<"/","p","r","o","j","/","p","l","o","t","s">>, <<"b","o","a","r","d","-","a","_","b">>, <<"p","d","f">>)

\* A plot opened with an empty suffix after others: its file is named as
\* the board.
C13_WitnessEmpty ==
    /\ op = "OpenPlotfile"
    /\ m_plotter = 3
    /\ calls[4] = <<"BuildPlotFileName", <<"/","p","r","o","j","/","p","l","o","t","s">>, <<>>, <<"g","b","r">>>>
    /\ m_plotFile.name = <<"b","o","a","r","d">>

=============================================================================
